---- MODULE Spec2Model ----
(***************************************************************************)
(* Smart energy monitor (src/main.py): a reading generator, a publisher   *)
(* loop that sends each reading to an MQTT broker, two client callbacks    *)
(* run by the client's background thread, and a usage advisor run once in  *)
(* the finally block of the main program.                                  *)
(***************************************************************************)
EXTENDS Integers, Sequences, FiniteSets

VARIABLES
    pc,           \* position of the main thread in the __main__ block
    ENERGY_DATA,  \* the global list of readings (main.py line 14)
    sent,         \* messages handed to client.publish that returned normally
    bg,           \* background network thread: "none", "running", "stopped"
    pending,      \* exception propagating out of the try block, or "none"
    stdout,       \* log lines printed by the handlers and the callbacks
    events,       \* calls made by the finally block, in order
    printed,      \* suggestions printed by the final analysis
    sumImpl,      \* which float summation the interpreter's sum() performs
    wire          \* result of the last json.dumps / decode round trip

vars == <<pc, ENERGY_DATA, sent, bg, pending, stdout, events, printed, sumImpl, wire>>

(***************************************************************************)
(* Bounds of the model.                                                    *)
(***************************************************************************)
MaxReadings == 3      \* readings the publisher loop may append
MaxCallbacks == 1     \* callback invocations by the background thread
MaxRc == 1            \* CONNACK result codes 0..MaxRc
MaxInstant == 1       \* instants the wall clock may show: 0..MaxInstant
MaxHist == 2          \* length of the histories handed to the advisor alone

(***************************************************************************)
(* Python floats.  A non-negative IEEE-754 double x that is 0 or lies in   *)
(* [2^-4, 2^15) is a multiple of 2^-56; it is held as three limbs          *)
(* <<h, m, l>> with x * 2^56 = h * 2^40 + m * 2^20 + l and m, l < 2^20.    *)
(* Every operation is computed exactly and then rounded to 53 significant  *)
(* bits, ties to even, as the hardware does.                               *)
(***************************************************************************)
Limb == 2 ^ 20

RECURSIVE BitLen(_)
BitLen(n) == IF n = 0 THEN 0 ELSE 1 + BitLen(n \div 2)

Norm(h, m, l) ==
    LET m1 == m + (l \div Limb)
    IN  <<h + (m1 \div Limb), m1 % Limb, l % Limb>>

\* x plus a tail of num/den units of 2^-56 (0 <= num < den), rounded to 53 bits.
Round53(x, num, den) ==
    LET s == BitLen(x[1]) - 13
    IN  IF s < 0 \/ (s = 0 /\ num = 0) THEN x
        ELSE LET P    == 2 ^ s
                 r    == x[3] % P
                 lsb  == IF s = 20 THEN x[2] % 2 ELSE (x[3] \div P) % 2
                 twice == 2 * (r * den + num)
                 up   == twice > P * den \/ (twice = P * den /\ lsb = 1)
             IN  Norm(x[1], x[2], x[3] - r + (IF up THEN P ELSE 0))

FZero == <<0, 0, 0>>

\* The double nearest to d/100: what round(v, 2) returns and what the
\* literals 0.3 and 0.5 denote.
DblOf(d) ==
    LET a  == d * 65536
        r1 == a % 100
        r2 == (r1 * Limb) % 100
    IN  Round53(<<a \div 100, (r1 * Limb) \div 100, (r2 * Limb) \div 100>>,
                (r2 * Limb) % 100, 100)

ExactAdd(a, b) == Norm(a[1] + b[1], a[2] + b[2], a[3] + b[3])

FAdd(a, b) == Round53(ExactAdd(a, b), 0, 1)

\* float * int: the int converts exactly, the product is rounded once.
FMulInt(a, n) == Round53(Norm(a[1] * n, a[2] * n, a[3] * n), 0, 1)

FGt(a, b) ==
    \/ a[1] > b[1]
    \/ a[1] = b[1] /\ a[2] > b[2]
    \/ a[1] = b[1] /\ a[2] = b[2] /\ a[3] > b[3]

FEq(a, b) == a = b

(***************************************************************************)
(* Readings.  generate_energy_data draws each value uniformly from its     *)
(* range and rounds it to 2 decimals; the model draws it from a few        *)
(* hundredths of each range (110 stands for 1.10).                         *)
(***************************************************************************)
MQTT_TOPIC == "home/energy"

Categories == {"heating", "cooling", "lighting", "electronics"}

HeatingValues == {110, 150, 220}        \* within [0.5, 3.0]
CoolingValues == {150, 180}             \* within [0.5, 3.0]
LightingValues == {20, 40}              \* within [0.1, 0.5]
ElectronicsValues == {50, 100}          \* within [0.2, 1.0]

Instants == 0 .. MaxInstant

\* pd.Timestamp.now(): a pandas Timestamp object, not a string or a number.
Timestamp(t) == [kind |-> "Timestamp", at |-> t]

MakeReading(ts, h, c, l, e) ==
    [timestamp  |-> ts,
     appliances |-> [heating |-> DblOf(h), cooling |-> DblOf(c),
                     lighting |-> DblOf(l), electronics |-> DblOf(e)]]

\* Every reading generate_energy_data can return, within the sampled values.
generate_energy_data ==
    { MakeReading(Timestamp(t), h, c, l, e) :
        t \in Instants, h \in HeatingValues, c \in CoolingValues,
        l \in LightingValues, e \in ElectronicsValues }

(***************************************************************************)
(* json.dumps with the default encoder.  A dict is written key by key in   *)
(* insertion order, a float by its shortest repr (for a value rounded to   *)
(* 2 decimals, those decimals), a str as a string; any other object makes  *)
(* the encoder raise TypeError.  The text is a sequence of tokens.         *)
(***************************************************************************)
Tok(t, s, n) == [tok |-> t, s |-> s, n |-> n]

MaxHundredths == 300

\* float.__repr__: the shortest decimal that reads back as the same double.
FloatRepr(x) == CHOOSE d \in 0 .. MaxHundredths : DblOf(d) = x

ApplianceOrder == <<"heating", "cooling", "lighting", "electronics">>

EncodeAppliances(a) ==
    <<Tok("{", "", 0)>>
    \o [i \in 1 .. 8 |->
          IF i % 2 = 1 THEN Tok("key", ApplianceOrder[(i + 1) \div 2], 0)
          ELSE Tok("float", "", FloatRepr(a[ApplianceOrder[i \div 2]]))]
    \o <<Tok("}", "", 0)>>

json_dumps(obj) ==
    IF obj.timestamp.kind # "str"
    THEN [error |-> "TypeError", text |-> <<>>]
    ELSE [error |-> "none",
          text  |-> <<Tok("{", "", 0), Tok("key", "timestamp", 0),
                      Tok("str", "", obj.timestamp.at),
                      Tok("key", "appliances", 0)>>
                    \o EncodeAppliances(obj.appliances)
                    \o <<Tok("}", "", 0)>>]

\* The decoder of the wire format: strings stay strings, numbers are read
\* as the nearest double.
json_loads(text) ==
    [timestamp  |-> [kind |-> "str", at |-> text[3].n],
     appliances |-> [c \in Categories |->
                       DblOf(text[CHOOSE i \in 6 .. 13 :
                                    text[i - 1] = Tok("key", c, 0)].n)]]

NoReading == MakeReading([kind |-> "none", at |-> 0], 0, 0, 0, 0)

(***************************************************************************)
(* The builtin sum() over floats.  Up to CPython 3.11 it adds left to      *)
(* right, rounding after each addition; from 3.12 it uses compensated      *)
(* summation, which for these values returns the exact sum rounded once.   *)
(***************************************************************************)
SumImpls == {"sequential", "compensated"}

RECURSIVE SequentialSum(_)
SequentialSum(xs) ==
    IF xs = <<>> THEN FZero
    ELSE FAdd(SequentialSum(SubSeq(xs, 1, Len(xs) - 1)), xs[Len(xs)])

RECURSIVE ExactSum(_)
ExactSum(xs) ==
    IF xs = <<>> THEN FZero
    ELSE ExactAdd(ExactSum(SubSeq(xs, 1, Len(xs) - 1)), xs[Len(xs)])

py_sum(xs, impl) ==
    IF impl = "sequential" THEN SequentialSum(xs) ELSE Round53(ExactSum(xs), 0, 1)

Column(data, c) == [i \in 1 .. Len(data) |-> data[i].appliances[c]]

HeatingMsg == "Consider lowering the thermostat for heating."
CoolingMsg == "Consider raising the thermostat for cooling."
LightingMsg == "Consider switching off lights in unoccupied rooms."
ElectronicsMsg == "Consider unplugging unused electronics."

LightingPerReading == 30        \* the literal 0.3
ElectronicsPerReading == 50     \* the literal 0.5

\* Lines 63-66: the four totals.
Totals(data, impl) ==
    [c \in Categories |-> py_sum(Column(data, c), impl)]

LightingLimit(data) == FMulInt(DblOf(LightingPerReading), Len(data))

ElectronicsLimit(data) == FMulInt(DblOf(ElectronicsPerReading), Len(data))

\* Mutant: the electronics rule compares with >= instead of >.
optimize_electronics_nonstrict(data, impl) ==
    LET t  == Totals(data, impl)
        s1 == IF FGt(t.heating, t.cooling) THEN <<HeatingMsg>> ELSE <<>>
        s2 == IF FGt(t.cooling, t.heating) THEN Append(s1, CoolingMsg) ELSE s1
        s3 == IF FGt(t.lighting, LightingLimit(data))
              THEN Append(s2, LightingMsg) ELSE s2
    IN  IF ~FGt(ElectronicsLimit(data), t.electronics)
        THEN Append(s3, ElectronicsMsg) ELSE s3

\* Mutant: the cooling rule compares with >= instead of >.
optimize_cooling_nonstrict(data, impl) ==
    LET t  == Totals(data, impl)
        s1 == IF FGt(t.heating, t.cooling) THEN <<HeatingMsg>> ELSE <<>>
        s2 == IF ~FGt(t.heating, t.cooling) THEN Append(s1, CoolingMsg) ELSE s1
        s3 == IF FGt(t.lighting, LightingLimit(data))
              THEN Append(s2, LightingMsg) ELSE s2
    IN  IF FGt(t.electronics, ElectronicsLimit(data))
        THEN Append(s3, ElectronicsMsg) ELSE s3

\* Mutant: the lighting and electronics rules compare the average per
\* reading (total / len(data)) with the limit, which raises
\* ZeroDivisionError on an empty history.
optimize_by_average(data, impl) ==
    LET t  == Totals(data, impl)
        s1 == IF FGt(t.heating, t.cooling) THEN <<HeatingMsg>> ELSE <<>>
        s2 == IF FGt(t.cooling, t.heating) THEN Append(s1, CoolingMsg) ELSE s1
        s3 == IF FGt(t.lighting, LightingLimit(data))
              THEN Append(s2, LightingMsg) ELSE s2
    IN  IF Len(data) = 0 THEN <<"ZeroDivisionError">>
        ELSE IF FGt(t.electronics, ElectronicsLimit(data))
             THEN Append(s3, ElectronicsMsg) ELSE s3

\* Lines 61-81.
optimize_energy_usage(data, impl) ==
    LET total_heating     == Totals(data, impl).heating
        total_cooling     == Totals(data, impl).cooling
        total_lighting    == Totals(data, impl).lighting
        total_electronics == Totals(data, impl).electronics
        s0 == <<>>
        s1 == IF FGt(total_heating, total_cooling)
              THEN Append(s0, HeatingMsg) ELSE s0
        s2 == IF FGt(total_cooling, total_heating)
              THEN Append(s1, CoolingMsg) ELSE s1
        s3 == IF FGt(total_lighting, LightingLimit(data))
              THEN Append(s2, LightingMsg) ELSE s2
        s4 == IF FGt(total_electronics, ElectronicsLimit(data))
              THEN Append(s3, ElectronicsMsg) ELSE s3
    IN  s4

(***************************************************************************)
(* The main program.  pc names the statement the main thread is about to   *)
(* execute:                                                                *)
(*   "connect"          client.connect(...)               line 90          *)
(*   "loop_start"       client.loop_start()               line 91          *)
(*   "generate"         loop body, lines 36-37                             *)
(*   "publish"          loop body, lines 38-40                             *)
(*   "loop_except"      handler of publish_energy_data    lines 41-43      *)
(*   "setup_except"     handler of the main try           lines 96-98      *)
(*   "finally_stop"     client.loop_stop()                line 101         *)
(*   "finally_analyse"  analysis and printing             lines 104-107    *)
(*   "exit"             the end of the script                              *)
(***************************************************************************)
TryBlock == {"connect", "loop_start", "generate", "publish",
             "loop_except", "setup_except"}

Init ==
    /\ pc = "connect"
    /\ ENERGY_DATA = <<>>
    /\ sent = <<>>
    /\ bg = "none"
    /\ pending = "none"
    /\ stdout = <<>>
    /\ events = <<>>
    /\ printed = <<>>
    /\ sumImpl \in SumImpls
    /\ wire = [error |-> "none", text |-> <<>>, decoded |-> NoReading]

\* client.connect(MQTT_BROKER, MQTT_PORT, 60): returns, or raises (the host
\* does not resolve, the connection is refused, the handshake times out).
Connect ==
    /\ pc = "connect"
    /\ \E outcome \in {"returns", "raises"} :
          /\ pc' = IF outcome = "returns" THEN "loop_start" ELSE "setup_except"
          /\ events' = Append(events, "connect")
    /\ UNCHANGED <<ENERGY_DATA, sent, bg, pending, stdout, printed, sumImpl, wire>>

LoopStart ==
    /\ pc = "loop_start"
    /\ bg' = "running"
    /\ events' = Append(events, "loop_start")
    /\ pc' = "generate"
    /\ UNCHANGED <<ENERGY_DATA, sent, pending, stdout, printed, sumImpl, wire>>

\* Lines 36-37: generate a reading and append it to ENERGY_DATA.
GenerateAndAppend ==
    /\ pc = "generate"
    /\ Len(ENERGY_DATA) < MaxReadings
    /\ \E energy_data \in generate_energy_data :
          ENERGY_DATA' = Append(ENERGY_DATA, energy_data)
    /\ pc' = "publish"
    /\ UNCHANGED <<sent, bg, pending, stdout, events, printed, sumImpl, wire>>

\* Lines 38-40: print, serialize, publish, sleep.  The argument
\* json.dumps(energy_data) is evaluated before client.publish is called.
SerializeAndPublish ==
    /\ pc = "publish"
    /\ LET energy_data == ENERGY_DATA[Len(ENERGY_DATA)]
           payload     == json_dumps(energy_data)
       IN  /\ wire' = [error |-> payload.error, text |-> payload.text,
                       decoded |-> NoReading]
           /\ IF payload.error # "none"
              THEN /\ pc' = "loop_except"
                   /\ stdout' = Append(stdout, "Publishing data")
                   /\ UNCHANGED <<sent, events>>
              ELSE \E outcome \in {"returns", "raises"} :
                      /\ stdout' = Append(stdout, "Publishing data")
                      /\ events' = Append(events, "publish")
                      /\ IF outcome = "returns"
                         THEN /\ sent' = Append(sent, [topic   |-> MQTT_TOPIC,
                                                       payload |-> payload.text])
                              /\ pc' = "generate"
                         ELSE /\ pc' = "loop_except"
                              /\ UNCHANGED sent
    /\ UNCHANGED <<ENERGY_DATA, bg, pending, printed, sumImpl>>

\* Mutant: the handler logs the error and goes on with the next iteration.
LoopExcept_retries ==
    /\ pc = "loop_except"
    /\ stdout' = Append(stdout, "Error in publishing energy data")
    /\ pc' = "generate"
    /\ UNCHANGED <<ENERGY_DATA, sent, bg, pending, events, printed, sumImpl, wire>>

\* Mutant: the handler removes the reading that could not be published.
LoopExcept_discards ==
    /\ pc = "loop_except"
    /\ stdout' = Append(stdout, "Error in publishing energy data")
    /\ ENERGY_DATA' = SubSeq(ENERGY_DATA, 1, Len(ENERGY_DATA) - 1)
    /\ pc' = "finally_stop"
    /\ UNCHANGED <<sent, bg, pending, events, printed, sumImpl, wire>>

\* Lines 41-43: except Exception inside publish_energy_data; the function
\* then returns normally and the main try block is left.
LoopExcept ==
    /\ pc = "loop_except"
    /\ stdout' = Append(stdout, "Error in publishing energy data")
    /\ pc' = "finally_stop"
    /\ UNCHANGED <<ENERGY_DATA, sent, bg, pending, events, printed, sumImpl, wire>>

\* Lines 96-98: except Exception of the main try block.
SetupExcept ==
    /\ pc = "setup_except"
    /\ stdout' = Append(stdout, "Error in setting up MQTT client")
    /\ pc' = "finally_stop"
    /\ UNCHANGED <<ENERGY_DATA, sent, bg, pending, events, printed, sumImpl, wire>>

\* Mutant: the cleanup is not in a finally block, so an exception that no
\* handler catches leaves the script without it.
KeyboardInterrupt_skips_cleanup ==
    /\ pc \in TryBlock
    /\ pending = "none"
    /\ pending' = "KeyboardInterrupt"
    /\ pc' = "exit"
    /\ UNCHANGED <<ENERGY_DATA, sent, bg, stdout, events, printed, sumImpl, wire>>

\* A KeyboardInterrupt delivered to the main thread inside the try statement.
\* It is a BaseException: neither "except Exception" catches it, so control
\* goes to the finally block and the interrupt is raised again after it.
KeyboardInterrupt ==
    /\ pc \in TryBlock
    /\ pending = "none"
    /\ pending' = "KeyboardInterrupt"
    /\ pc' = "finally_stop"
    /\ UNCHANGED <<ENERGY_DATA, sent, bg, stdout, events, printed, sumImpl, wire>>

\* Line 101: client.loop_stop(); without a running thread it returns an
\* error code and does nothing.
LoopStop ==
    /\ pc = "finally_stop"
    /\ bg' = IF bg = "running" THEN "stopped" ELSE bg
    /\ events' = Append(events, "loop_stop")
    /\ pc' = "finally_analyse"
    /\ UNCHANGED <<ENERGY_DATA, sent, pending, stdout, printed, sumImpl, wire>>

\* Lines 104-107: run the advisor over ENERGY_DATA and print its suggestions.
FinalAnalysis ==
    /\ pc = "finally_analyse"
    /\ printed' = optimize_energy_usage(ENERGY_DATA, sumImpl)
    /\ events' = Append(events, "optimize_energy_usage")
    /\ stdout' = Append(stdout, "Energy Usage Optimization Suggestions:")
    /\ pc' = "exit"
    /\ UNCHANGED <<ENERGY_DATA, sent, bg, pending, sumImpl, wire>>

(***************************************************************************)
(* The callbacks, run by the client's background thread between            *)
(* loop_start and loop_stop.                                               *)
(***************************************************************************)
CallbackLines == {"Connected to MQTT Broker!", "Failed to connect",
                  "Received message", "Error handling incoming message"}

CallbacksRun == Cardinality({i \in DOMAIN stdout : stdout[i] \in CallbackLines})

\* Mutant: a refused connection makes the callback reconnect.
on_connect_reconnects(rc) ==
    /\ stdout' = Append(stdout, IF rc = 0 THEN "Connected to MQTT Broker!"
                                ELSE "Failed to connect")
    /\ events' = IF rc = 0 THEN events ELSE Append(events, "reconnect")
    /\ UNCHANGED <<pc, ENERGY_DATA, sent, bg, pending, printed, sumImpl, wire>>

\* Lines 46-50.
on_connect(rc) ==
    /\ stdout' = Append(stdout, IF rc = 0 THEN "Connected to MQTT Broker!"
                                ELSE "Failed to connect")
    /\ UNCHANGED <<pc, ENERGY_DATA, sent, bg, pending, events, printed, sumImpl, wire>>

Payloads == {"utf-8 bytes", "undecodable bytes"}

\* Mutant: the callback records what it received in ENERGY_DATA.
on_message_records(payload) ==
    /\ stdout' = Append(stdout, IF payload = "utf-8 bytes" THEN "Received message"
                                ELSE "Error handling incoming message")
    /\ ENERGY_DATA' = IF payload = "utf-8 bytes" THEN Append(ENERGY_DATA, NoReading)
                      ELSE ENERGY_DATA
    /\ UNCHANGED <<pc, sent, bg, pending, events, printed, sumImpl, wire>>

\* Lines 53-58: msg.payload.decode() raises UnicodeDecodeError on bytes that
\* are not UTF-8; the handler catches it.
on_message(payload) ==
    /\ stdout' = Append(stdout, IF payload = "utf-8 bytes" THEN "Received message"
                                ELSE "Error handling incoming message")
    /\ UNCHANGED <<pc, ENERGY_DATA, sent, bg, pending, events, printed, sumImpl, wire>>

OnConnect ==
    /\ bg = "running"
    /\ CallbacksRun < MaxCallbacks
    /\ \E rc \in 0 .. MaxRc : on_connect(rc)

OnMessage ==
    /\ bg = "running"
    /\ CallbacksRun < MaxCallbacks
    /\ \E payload \in Payloads : on_message(payload)

MainNext ==
    \/ Connect
    \/ LoopStart
    \/ GenerateAndAppend
    \/ SerializeAndPublish
    \/ LoopExcept
    \/ SetupExcept
    \/ LoopStop
    \/ FinalAnalysis

Next == MainNext \/ KeyboardInterrupt \/ OnConnect \/ OnMessage

Spec == Init /\ [][Next]_vars

(***************************************************************************)
(* The advisor alone: the final analysis applied to every history of up to *)
(* MaxHist sampled readings.                                               *)
(***************************************************************************)
AdvisorReadings == {r \in generate_energy_data : r.timestamp.at = 0}

Histories == UNION {[1 .. n -> AdvisorReadings] : n \in 0 .. MaxHist}

InitAdvisor ==
    /\ pc = "finally_analyse"
    /\ ENERGY_DATA \in Histories
    /\ sent = <<>>
    /\ bg = "stopped"
    /\ pending = "none"
    /\ stdout = <<>>
    /\ events = <<"connect", "loop_start", "loop_stop">>
    /\ printed = <<>>
    /\ sumImpl \in SumImpls
    /\ wire = [error |-> "none", text |-> <<>>, decoded |-> NoReading]

SpecAdvisor == InitAdvisor /\ [][FinalAnalysis]_vars

(***************************************************************************)
(* The wire format alone: one generated reading is serialized as line 39   *)
(* does and, when that succeeds, decoded again.                            *)
(***************************************************************************)
InitRoundTrip ==
    /\ pc = "round_trip"
    /\ \E r \in generate_energy_data : ENERGY_DATA = <<r>>
    /\ sent = <<>>
    /\ bg = "none"
    /\ pending = "none"
    /\ stdout = <<>>
    /\ events = <<>>
    /\ printed = <<>>
    /\ sumImpl \in SumImpls
    /\ wire = [error |-> "none", text |-> <<>>, decoded |-> NoReading]

RoundTrip ==
    /\ pc = "round_trip"
    /\ LET payload == json_dumps(ENERGY_DATA[1])
       IN  wire' = [error   |-> payload.error,
                    text    |-> payload.text,
                    decoded |-> IF payload.error = "none"
                                THEN json_loads(payload.text) ELSE NoReading]
    /\ pc' = "round_trip_done"
    /\ UNCHANGED <<ENERGY_DATA, sent, bg, pending, stdout, events, printed, sumImpl>>

SpecRoundTrip == InitRoundTrip /\ [][RoundTrip]_vars

(***************************************************************************)
(* Properties.                                                             *)
(***************************************************************************)
Has(seq, x) == \E i \in DOMAIN seq : seq[i] = x

Count(seq, x) == Cardinality({i \in DOMAIN seq : seq[i] = x})

LoopErrorLogged == Has(stdout, "Error in publishing energy data")

SetupErrorLogged == Has(stdout, "Error in setting up MQTT client")

\* C1: every iteration of the publisher loop appends one reading and emits
\* one message carrying it on "home/energy": whenever the main thread is
\* not in the middle of an iteration and has not been interrupted, there
\* are as many messages as readings and the k-th message carries the k-th
\* reading.
C1_EveryIterationEmits ==
    (pc # "publish" /\ pending = "none") =>
        /\ Len(sent) = Len(ENERGY_DATA)
        /\ \A k \in DOMAIN sent :
              /\ sent[k].topic = MQTT_TOPIC
              /\ sent[k].payload = json_dumps(ENERGY_DATA[k]).text

\* The finally block has run: loop_stop once, then the advisor once, as
\* the last two calls, and the advisor's result over ENERGY_DATA is printed.
FinalizedInOrder ==
    /\ Len(events) >= 2
    /\ events[Len(events) - 1] = "loop_stop"
    /\ events[Len(events)] = "optimize_energy_usage"
    /\ Count(events, "loop_stop") = 1
    /\ Count(events, "optimize_energy_usage") = 1
    /\ bg # "running"
    /\ printed = optimize_energy_usage(ENERGY_DATA, sumImpl)

\* C2: however the try block is left (an error caught in the loop, an
\* exception from connection setup, an interrupt no handler catches), the
\* finally block runs next, in order: loop_stop first, then the advisor
\* over the history collected so far, whose suggestions are printed; the
\* script ends only with each of the two run exactly once.
C2_FinalizationRuns ==
    /\ [][ (pc \in TryBlock /\ pc' \notin TryBlock) =>
              pc' = "finally_stop" /\ events' = events ]_vars
    /\ [][ (pc = "finally_stop" /\ pc' # pc) =>
              /\ pc' = "finally_analyse"
              /\ events' = Append(events, "loop_stop")
              /\ bg' # "running" ]_vars
    /\ [][ (pc = "finally_analyse" /\ pc' # pc) =>
              /\ pc' = "exit"
              /\ events' = Append(events, "optimize_energy_usage")
              /\ printed' = optimize_energy_usage(ENERGY_DATA, sumImpl) ]_vars
    /\ [](pc = "exit" => FinalizedInOrder)

C2_Witness ==
    /\ pc = "exit"
    /\ pending = "KeyboardInterrupt"
    /\ Len(ENERGY_DATA) = 1
    /\ FinalizedInOrder

\* C3: once an error has been raised inside the publisher loop, no reading
\* is appended and no message is emitted any more, the loop is not entered
\* again, the handler logs the error, and the error does not reach the
\* handler of the caller.
C3_LoopErrorEndsLoop ==
    [][ (pc = "loop_except" \/ LoopErrorLogged) =>
          /\ ENERGY_DATA' = ENERGY_DATA
          /\ sent' = sent
          /\ pc' \in {"loop_except", "finally_stop", "finally_analyse", "exit"}
          /\ (pc = "loop_except" /\ pc' # pc /\ pending' = "none") => LoopErrorLogged'
          /\ ~SetupErrorLogged' ]_vars

C3_Witness ==
    /\ pc = "exit"
    /\ pending = "none"
    /\ LoopErrorLogged
    /\ Len(ENERGY_DATA) = 1
    /\ sent = <<>>

\* C4: serializing a generated reading succeeds and decoding the result
\* gives back its timestamp and its four values.
C4_RoundTrip ==
    pc = "round_trip_done" =>
        /\ wire.error = "none"
        /\ wire.decoded.timestamp.at = ENERGY_DATA[1].timestamp.at
        /\ wire.decoded.appliances = ENERGY_DATA[1].appliances

AllSuggestions == <<HeatingMsg, CoolingMsg, LightingMsg, ElectronicsMsg>>

Rank(sug) == CHOOSE i \in DOMAIN AllSuggestions : AllSuggestions[i] = sug

\* Whether the rule of a suggestion is triggered by the totals of a history.
Triggered(sug, data, impl) ==
    LET t == Totals(data, impl)
    IN  CASE sug = HeatingMsg     -> FGt(t.heating, t.cooling)
          [] sug = CoolingMsg     -> FGt(t.cooling, t.heating)
          [] sug = LightingMsg    -> FGt(t.lighting, LightingLimit(data))
          [] sug = ElectronicsMsg -> FGt(t.electronics, ElectronicsLimit(data))

\* C5: the advisor returns exactly the triggered suggestions, in the order
\* heating, cooling, lighting, electronics, each at most once; a rule is
\* triggered by a strict comparison of totals over the whole history, the
\* lighting and electronics totals against 0.3 and 0.5 times the count.
C5_ExactlyTriggeredInOrder ==
    pc = "exit" =>
        /\ \A i \in DOMAIN printed : Has(AllSuggestions, printed[i])
        /\ \A i \in DOMAIN AllSuggestions :
              Has(printed, AllSuggestions[i])
                  <=> Triggered(AllSuggestions[i], ENERGY_DATA, sumImpl)
        /\ \A i, j \in DOMAIN printed :
              i < j => Rank(printed[i]) < Rank(printed[j])

\* Two readings whose electronics total equals the limit exactly, with the
\* heating and lighting rules triggered.
C5_Witness ==
    /\ pc = "exit"
    /\ Len(ENERGY_DATA) = 2
    /\ printed = <<HeatingMsg, LightingMsg>>
    /\ FEq(Totals(ENERGY_DATA, sumImpl).electronics, ElectronicsLimit(ENERGY_DATA))

\* C6: the advisor never gives both thermostat suggestions, and gives
\* neither when the heating and cooling totals are equal.
C6_ThermostatExclusive ==
    pc = "exit" =>
        /\ ~(Has(printed, HeatingMsg) /\ Has(printed, CoolingMsg))
        /\ FEq(Totals(ENERGY_DATA, sumImpl).heating,
               Totals(ENERGY_DATA, sumImpl).cooling)
             => ~Has(printed, HeatingMsg) /\ ~Has(printed, CoolingMsg)

C6_Witness ==
    /\ pc = "exit"
    /\ Len(ENERGY_DATA) = 2
    /\ FEq(Totals(ENERGY_DATA, sumImpl).heating,
           Totals(ENERGY_DATA, sumImpl).cooling)
    /\ printed # <<>>

\* C7: on an empty history the advisor runs without error and returns no
\* suggestion, so a program that reaches the finally block before any
\* reading was appended prints none.
C7_EmptyHistoryNoSuggestion ==
    (pc = "exit" /\ ENERGY_DATA = <<>>) =>
        /\ events[Len(events)] = "optimize_energy_usage"
        /\ printed = <<>>

C7_Witness ==
    /\ pc = "exit"
    /\ ENERGY_DATA = <<>>
    /\ SetupErrorLogged
    /\ events[Len(events)] = "optimize_energy_usage"

\* C8: ENERGY_DATA changes only by the publisher loop appending one
\* generated reading at its end; the callbacks, the handlers and the final
\* analysis leave it as it is.
C8_AppendOnlySingleWriter ==
    [][ ENERGY_DATA' # ENERGY_DATA =>
          /\ pc = "generate" /\ pc' = "publish"
          /\ Len(ENERGY_DATA') = Len(ENERGY_DATA) + 1
          /\ SubSeq(ENERGY_DATA', 1, Len(ENERGY_DATA)) = ENERGY_DATA
          /\ ENERGY_DATA'[Len(ENERGY_DATA')] \in generate_energy_data
          /\ stdout' = stdout ]_vars

C8_Witness ==
    /\ pc = "exit"
    /\ Len(ENERGY_DATA) = 1
    /\ Has(stdout, "Received message")
    /\ Has(events, "optimize_energy_usage")

\* A step of the background thread: a callback printed its line.
CallbackStep ==
    /\ Len(stdout') = Len(stdout) + 1
    /\ stdout'[Len(stdout')] \in CallbackLines

\* C9: a callback only logs: a refused connection or an undecodable
\* message leaves the main thread where it is, with its history and its
\* messages, raises nothing, stops nothing and makes no client call.
C9_CallbacksOnlyLog ==
    [][ CallbackStep =>
          /\ pc' = pc
          /\ ENERGY_DATA' = ENERGY_DATA
          /\ sent' = sent
          /\ pending' = pending
          /\ bg' = bg
          /\ events' = events ]_vars

\* A refused connection logged before the loop printed a reading.
C9_Witness ==
    \E i, j \in DOMAIN stdout :
        /\ i < j
        /\ stdout[i] = "Failed to connect"
        /\ stdout[j] = "Publishing data"

\* C10: the history is never shorter than the messages emitted and at most
\* one longer; a reading whose serialization or transmission failed stays
\* in the history, unsent, and the final analysis is made over it too.
C10_AppendBeforeEmit ==
    /\ Len(sent) <= Len(ENERGY_DATA)
    /\ Len(ENERGY_DATA) <= Len(sent) + 1
    /\ (pc \in {"finally_stop", "finally_analyse", "exit"} /\ LoopErrorLogged) =>
          Len(ENERGY_DATA) = Len(sent) + 1
    /\ (pc = "exit" /\ LoopErrorLogged) =>
          printed = optimize_energy_usage(ENERGY_DATA, sumImpl)

C10_Witness ==
    /\ pc = "exit"
    /\ LoopErrorLogged
    /\ wire.error = "TypeError"
    /\ Len(ENERGY_DATA) = 1
    /\ sent = <<>>
    /\ printed # optimize_energy_usage(<<>>, sumImpl)

====
